---- MODULE Spec2Model ----
(***************************************************************************)
(* A model of InfluencerScraper.py: the Streamlit handler main() and the   *)
(* helpers it calls, as a state machine over the two worksheets ("Main",   *)
(* "Hashtags"), the discovered username set, the TikTok side-channel       *)
(* posts_by_user and the local variables of the per-username loop.         *)
(*                                                                         *)
(* Upstream answers (Apify actors, gspread writes) are inputs: each step   *)
(* that calls out draws the answer, or the raising of an exception, with   *)
(* \E from a small set.                                                    *)
(*                                                                         *)
(* Numbers: engagement_rate is the Python float                           *)
(*   ((median_likes + median_comments) / followers_count) * 100            *)
(* and is only ever compared with 0.25.  For integer operands the float    *)
(* comparison agrees with the exact one (the quotient s/(400*s) rounds to  *)
(* the double nearest 0.0025, whose product with 100 rounds to 0.25), so   *)
(* the rate is kept as an exact fraction [num, den].                       *)
(***************************************************************************)
EXTENDS Integers, Sequences, FiniteSets, TLC

VARIABLES
    pc,                \* position of the script / of main()
    run,               \* number of script runs started (the clock of datetime.now())
    platform,          \* st.selectbox value of the current run
    hashtags_input,    \* st.text_input value, as the list hashtags_input.split(",")
    hashtags,          \* main(): the parsed hashtag list
    hidx,              \* fetch_owner_usernames_*: index of the next hashtag of the for loop
    unique_usernames,  \* fetch_owner_usernames_*: the set being accumulated / returned
    posts_by_user,     \* fetch_owner_usernames_tiktok: username -> list of items
    todo,              \* main(): usernames the for loop has not visited yet
    username,          \* main(): loop variable
    profile_data,      \* main(): result of scrape_profile_info_*
    sample,            \* the post list handed to the activity scoring
    stats,             \* main(): (median_likes, median_comments)
    verdict,           \* how the iteration of `username` ended
    main_worksheet,    \* rows of the "Main" sheet below the header
    hashtag_worksheet, \* rows of the "Hashtags" sheet below the header
    disc,              \* history of the discovery call in progress
    iter,              \* history of the iteration of `username`
    hist               \* history of the current run (failures seen, rows appended)

vars == <<pc, run, platform, hashtags_input, hashtags, hidx,
          unique_usernames, posts_by_user, todo, username, profile_data,
          sample, stats, verdict, main_worksheet, hashtag_worksheet, disc,
          iter, hist>>

----------------------------------------------------------------------------
(* Program constants *)

min_followers == 1000
min_posts == 20
\* min_engagement = 0.25, kept as the fraction min_engagement_num / min_engagement_den
min_engagement_num == 1
min_engagement_den == 4
\* posts[:5] / user_posts[:5]
RecentCount == 5

----------------------------------------------------------------------------
(* Bounds of the model *)

MaxRuns == 2       \* script runs per behaviour
MaxPosts == 6      \* longest post list drawn for the activity scoring on its own

----------------------------------------------------------------------------
(* Sequences *)

None == "None"

\* Python's None where a dict or a tuple is expected
NoProfile == [absent |-> TRUE]
NoStats == [absent |-> TRUE]

Take(s, n) == SubSeq(s, 1, IF Len(s) < n THEN Len(s) ELSE n)

SeqsUpTo(D, n) == UNION {[1..k -> D] : k \in 0..n}

Range(s) == {s[i] : i \in 1..Len(s)}

\* s with x put after every element whose key is >= key(x): one step of a
\* stable sort into descending key order.
RECURSIVE InsertDesc(_, _)
InsertDesc(s, x) ==
    IF s = <<>> THEN <<x>>
    ELSE IF s[1].ts >= x.ts THEN <<s[1]>> \o InsertDesc(Tail(s), x)
    ELSE <<x>> \o s

\* list.sort(key=timestamp, reverse=True): descending, and stable (equal keys
\* keep the order they had in the input).
RECURSIVE SortByRecencyFrom(_, _)
SortByRecencyFrom(acc, s) ==
    IF s = <<>> THEN acc
    ELSE SortByRecencyFrom(InsertDesc(acc, s[1]), Tail(s))

SortByRecency(s) == SortByRecencyFrom(<<>>, s)

\* sorted(values), ascending
RECURSIVE InsertAsc(_, _)
InsertAsc(s, x) ==
    IF s = <<>> THEN <<x>>
    ELSE IF s[1] <= x THEN <<s[1]>> \o InsertAsc(Tail(s), x)
    ELSE <<x>> \o s

RECURSIVE SortAscFrom(_, _)
SortAscFrom(acc, s) ==
    IF s = <<>> THEN acc
    ELSE SortAscFrom(InsertAsc(acc, s[1]), Tail(s))

SortAsc(s) == SortAscFrom(<<>>, s)

\* Twice np.median(values) of a non-empty list: the middle value, or the mean
\* of the two middle values, doubled so that it stays an integer.
Median2(values) ==
    LET v == SortAsc(values)
        n == Len(v)
    IN  IF n % 2 = 1 THEN 2 * v[(n + 1) \div 2]
        ELSE v[n \div 2] + v[n \div 2 + 1]

\* int(x) for x = m2 / 2: truncation toward zero
IntOfHalf(m2) == IF m2 >= 0 THEN m2 \div 2 ELSE -((-m2) \div 2)

\* int(np.median(values))
IntMedian(values) == IntOfHalf(Median2(values))

\* Variant: the slice [:5] taken without sorting first
RecentPosts_Unsorted(posts) == Take(posts, RecentCount)

\* posts.sort(...reverse=True); recent_posts = posts[:5]
RecentPosts(posts) == Take(SortByRecency(posts), RecentCount)

LikesList(recent) == [i \in 1..Len(recent) |-> recent[i].likes]
CommentsList(recent) == [i \in 1..Len(recent) |-> recent[i].comments]

\* The scoring shared by get_last_5_posts_stats_instagram and _tiktok on a
\* well-formed post list: (median_likes, median_comments).
Last5Stats(posts) ==
    IF posts = <<>> THEN [likes |-> 0, comments |-> 0]
    ELSE LET recent == RecentPosts(posts)
         IN  IF LikesList(recent) = <<>> THEN [likes |-> 0, comments |-> 0]
             ELSE [likes |-> IntMedian(LikesList(recent)),
                   comments |-> IntMedian(CommentsList(recent))]

\* A post whose like count is no number (JSON null, "1.2K"): int() and
\* np.median raise on it.
HasBadCount(recent) == \E i \in 1..Len(recent) : recent[i].bad

\* get_last_5_posts_stats_instagram: everything from the actor call to the
\* medians is inside try/except, which answers (0, 0).
get_last_5_posts_stats_instagram(fetch) ==
    IF fetch.raised THEN [raised |-> FALSE, likes |-> 0, comments |-> 0]
    ELSE IF fetch.posts # <<>> /\ HasBadCount(RecentPosts(fetch.posts))
         THEN [raised |-> FALSE, likes |-> 0, comments |-> 0]
    ELSE [raised |-> FALSE, likes |-> Last5Stats(fetch.posts).likes,
          comments |-> Last5Stats(fetch.posts).comments]

\* get_last_5_posts_stats_tiktok: no try/except; int(post.get("diggCount", 0))
\* raises out of the function on a count that is no number.
get_last_5_posts_stats_tiktok(user_posts) ==
    IF user_posts # <<>> /\ HasBadCount(RecentPosts(user_posts))
    THEN [raised |-> TRUE, likes |-> 0, comments |-> 0]
    ELSE [raised |-> FALSE, likes |-> Last5Stats(user_posts).likes,
          comments |-> Last5Stats(user_posts).comments]

\* main(): engagement_rate, as a fraction
engagement_rate(median_likes, median_comments, followers_count) ==
    IF followers_count > 0
    THEN [num |-> (median_likes + median_comments) * 100, den |-> followers_count]
    ELSE [num |-> 0, den |-> 1]

\* Variant: engagement_rate <= min_engagement
LowEngagement_Inclusive(rate) ==
    rate.num * min_engagement_den <= min_engagement_num * rate.den

\* Variant: the comparison the wrong way round, engagement_rate > min_engagement
LowEngagement_Flipped(rate) ==
    rate.num * min_engagement_den > min_engagement_num * rate.den

\* main(): engagement_rate < min_engagement
LowEngagement(rate) ==
    rate.num * min_engagement_den < min_engagement_num * rate.den

\* Variant: >= in place of >
PassesGate_AtLeast(profile) ==
    profile.followers_count >= min_followers /\ profile.posts_count >= min_posts

\* main(): followers_count > min_followers and posts_count > min_posts
PassesGate(profile) ==
    profile.followers_count > min_followers /\ profile.posts_count > min_posts

----------------------------------------------------------------------------
(* The inputs: what the operator types and what upstream holds *)

Platforms == {"Instagram", "TikTok"}

\* Usernames upstream can report; "" is the falsy username of `if username and`.
Users == {"", "u1", "u2"}

\* An item without "ownerUsername" / without authorMeta.nickName
NoName == "NoName"

\* A token of hashtags_input.split(",") that is empty after strip()
Blank == "Blank"

\* hashtags_input as its list of comma-separated tokens.  A single blank
\* token is the input whose strip() is empty; <<Blank, Blank>> is ",".
Inputs == {<<Blank>>, <<Blank, Blank>>, <<"b">>, <<"a", Blank, "b">>}

Item(u, ts, likes, comments, bad) ==
    [user |-> u, ts |-> ts, likes |-> likes, comments |-> comments, bad |-> bad]

\* The items the hashtag actor's dataset holds for a hashtag, in the order
\* iterate_items() yields them.  On TikTok the same items are the posts of the
\* side-channel: ts is createTime, likes diggCount, comments commentCount.
UpstreamItems(htag) ==
    IF htag = "a"
    THEN << Item("u1", 2, 2, 0, FALSE), Item(NoName, 1, 0, 0, FALSE),
            Item("u2", 1, 3, 0, FALSE) >>
    ELSE << Item("u1", 1, 3, 1, FALSE), Item("u2", 2, 0, 0, TRUE),
            Item("", 1, 0, 0, FALSE) >>

\* How a hashtag query ends: all items read, or an exception after `read`
\* items were read (read = 0: the actor call itself raised).
QueryOutcomes(items) ==
    {[failed |-> FALSE, read |-> Len(items)]} \cup
    {[failed |-> TRUE, read |-> k] : k \in 0..Len(items)}

\* authorMeta.nickName values the TikTok profile actor can answer
ProfileNicks == {"u1", "u2"}

\* (followersCount, postsCount) pairs the profile actor can answer
ProfileCounts ==
    { [followers_count |-> 1000, posts_count |-> 21],
      [followers_count |-> 1200, posts_count |-> 20],
      [followers_count |-> 1200, posts_count |-> 21] }

Post(ts, likes, comments) ==
    [ts |-> ts, likes |-> likes, comments |-> comments, bad |-> FALSE]

\* Post lists the Instagram post actor can answer
PostLists ==
    { <<>>,
      << Post(1, 2, 0) >>,
      << Post(1, 3, 0) >>,
      << Post(1, 2, 0), Post(2, 3, 1) >>,
      << Post(1, 9, 9), Post(2, 0, 0), Post(3, 0, 0), Post(4, 0, 0),
         Post(5, 0, 0), Post(6, 0, 0) >>,
      << [ts |-> 1, likes |-> 0, comments |-> 0, bad |-> TRUE] >> }

----------------------------------------------------------------------------
(* History of a run *)

\* Of one call of fetch_owner_usernames_from_hashtags_*
NewDisc ==
    [ queried    |-> <<>>,  \* hashtag indices queried, in order
      okIds      |-> {},    \* usernames of the hashtags whose query succeeded
      partialIds |-> {} ]   \* usernames read from a hashtag before its query failed

\* Of one pass of the for loop over unique_usernames
NewIter ==
    [ dedupTrue |-> FALSE,  \* the dedup check answered true
      profile   |-> FALSE,  \* scrape_profile_info_* was called
      activity  |-> FALSE,  \* get_last_5_posts_stats_* was called
      appended  |-> FALSE ] \* a Main row was appended

\* Of one run of the script
NewHist(prior) ==
    [ appendedFor |-> {},     \* usernames whose iteration appended a Main row
      auditRows   |-> 0,      \* rows this run appended to "Hashtags"
      storeFailed |-> FALSE,  \* a worksheet write of this run raised
      work        |-> FALSE,  \* an upstream actor call was made
      failedAfterWork  |-> FALSE,  \* a store failure surfaced after an actor call
      workAfterFailure |-> FALSE,  \* an actor call was made after a store failure
      crash       |-> "none", \* what raised out of main()
      prior       |-> prior ] \* <<platform, username>> of rows appended by earlier runs

Called(h) == [h EXCEPT !.work = TRUE, !.workAfterFailure = @ \/ h.storeFailed]

----------------------------------------------------------------------------
(* The state after the script was loaded and before its first run *)

Init ==
    /\ pc = "idle"
    /\ run = 0
    /\ platform = None
    /\ hashtags_input = <<>>
    /\ hashtags = <<>>
    /\ hidx = 0
    /\ unique_usernames = {}
    /\ posts_by_user = [u \in Users |-> <<>>]
    /\ todo = {}
    /\ username = None
    /\ profile_data = NoProfile
    /\ sample = <<>>
    /\ stats = NoStats
    /\ verdict = "none"
    /\ main_worksheet = <<>>
    /\ hashtag_worksheet = <<>>
    /\ disc = NewDisc
    /\ iter = NewIter
    /\ hist = NewHist({})

RunEnded == pc \in {"idle", "store_unavailable", "invalid", "completed", "crashed"}

\* Streamlit runs the script top to bottom: the module setup opens the
\* spreadsheet and raises if it cannot (lines 40-45); then main() is called.
Rerun ==
    /\ RunEnded
    /\ run < MaxRuns
    /\ run' = run + 1
    /\ \E opened \in BOOLEAN :
         pc' = IF opened THEN "main" ELSE "store_unavailable"
    /\ platform' = None
    /\ hashtags_input' = <<>>
    /\ hashtags' = <<>>
    /\ hidx' = 0
    /\ unique_usernames' = {}
    /\ posts_by_user' = [u \in Users |-> <<>>]
    /\ todo' = {}
    /\ username' = None
    /\ profile_data' = NoProfile
    /\ sample' = <<>>
    /\ stats' = NoStats
    /\ verdict' = "none"
    /\ disc' = NewDisc
    /\ iter' = NewIter
    /\ hist' = NewHist(hist.prior \cup {<<platform, u>> : u \in hist.appendedFor})
    /\ UNCHANGED <<main_worksheet, hashtag_worksheet>>

\* [tag.strip() for tag in hashtags_input.split(",") if tag.strip()]
ParseHashtags(input) == SelectSeq(input, LAMBDA tag : tag # Blank)

\* not hashtags_input.strip()
InputIsBlank(input) == input = <<Blank>>

\* main() up to st.success("Using ..."): the widgets are read and the input
\* is validated.
Click ==
    /\ pc = "main"
    /\ \E p \in Platforms, input \in Inputs :
         /\ platform' = p
         /\ hashtags_input' = input
         /\ IF InputIsBlank(input) \/ ParseHashtags(input) = <<>>
            THEN pc' = "invalid" /\ hashtags' = <<>>
            ELSE pc' = "audit" /\ hashtags' = ParseHashtags(input)
    /\ UNCHANGED <<run, hidx, unique_usernames, posts_by_user, todo,
                   username, profile_data, sample, stats, verdict,
                   main_worksheet, hashtag_worksheet, disc, iter, hist>>

\* append_hashtags_to_sheet: the row is appended, or append_row raises and the
\* except clause logs the error; either way main() goes on to discovery.
append_hashtags_to_sheet ==
    /\ pc = "audit"
    /\ \E written \in BOOLEAN :
         IF written
         THEN /\ hashtag_worksheet' = Append(hashtag_worksheet,
                    [timestamp |-> run, input |-> hashtags_input,
                     hashtags |-> hashtags])
              /\ hist' = [hist EXCEPT !.auditRows = @ + 1]
         ELSE /\ hashtag_worksheet' = hashtag_worksheet
              /\ hist' = [hist EXCEPT !.storeFailed = TRUE]
    /\ pc' = "discover"
    /\ hidx' = 1
    /\ UNCHANGED <<run, platform, hashtags_input, hashtags, unique_usernames,
                   posts_by_user, todo, username, profile_data, sample,
                   stats, verdict, main_worksheet, disc, iter>>

----------------------------------------------------------------------------
(* Discover: fetch_owner_usernames_from_hashtags_instagram / _tiktok *)

\* The items iterate_items() yielded before the query ended
ReadItems(items, outcome) == Take(items, outcome.read)

\* Items carrying a username ("ownerUsername" in item / item["authorMeta"]["nickName"])
Named(items) == SelectSeq(items, LAMBDA it : it.user # NoName)

NamesOf(items) == {it.user : it \in Range(Named(items))}

\* posts_by_user.setdefault(username, []).append(item), for each item read
AddPosts(pbu, items) ==
    [u \in Users |-> pbu[u] \o SelectSeq(items, LAMBDA it : it.user = u)]

\* Variant: no try/except inside the loop body, the first failed query ends
\* the loop
AfterHashtag_Break(i, failed) == IF failed THEN Len(hashtags) + 1 ELSE i + 1

\* Where the for loop over hashtags stands after hashtag number i: the
\* try/except inside the loop body makes a failed query fall through to the
\* next hashtag.
AfterHashtag(i, failed) == i + 1

\* One pass of the loop body: one actor call for hashtags[hidx], its items read
\* until the end of the dataset or until an exception.
fetch_owner_usernames_step ==
    /\ pc = "discover"
    /\ hidx <= Len(hashtags)
    /\ LET items == UpstreamItems(hashtags[hidx])
       IN  \E outcome \in QueryOutcomes(items) :
             LET read == ReadItems(items, outcome)
                 failed == outcome.failed
             IN  /\ unique_usernames' = unique_usernames \cup NamesOf(read)
                 /\ posts_by_user' = IF platform = "TikTok"
                                     THEN AddPosts(posts_by_user, read)
                                     ELSE posts_by_user
                 /\ hidx' = AfterHashtag(hidx, failed)
                 /\ hist' = Called(hist)
                 /\ disc' = [disc EXCEPT
                        !.queried = Append(@, hidx),
                        !.okIds = IF failed THEN @ ELSE @ \cup NamesOf(items),
                        !.partialIds = IF failed THEN @ \cup NamesOf(read) ELSE @]
    /\ UNCHANGED <<pc, run, platform, hashtags_input, hashtags, todo,
                   username, profile_data, sample, stats, verdict,
                   main_worksheet, hashtag_worksheet, iter>>

\* return unique_usernames (, posts_by_user); main() starts its for loop
fetch_owner_usernames_return ==
    /\ pc = "discover"
    /\ hidx > Len(hashtags)
    /\ todo' = unique_usernames
    /\ pc' = "iterate"
    /\ disc' = NewDisc
    /\ UNCHANGED <<run, platform, hashtags_input, hashtags, hidx,
                   unique_usernames, posts_by_user, username, profile_data,
                   sample, stats, verdict, main_worksheet, hashtag_worksheet,
                   iter, hist>>

----------------------------------------------------------------------------
(* The per-username loop of main() *)

\* for username in unique_usernames: a set is iterated in no particular order
NextUsername ==
    /\ pc = "iterate"
    /\ todo # {}
    /\ \E u \in todo :
         /\ username' = u
         /\ todo' = todo \ {u}
    /\ pc' = "dedup"
    /\ profile_data' = NoProfile
    /\ sample' = <<>>
    /\ stats' = NoStats
    /\ verdict' = "none"
    /\ iter' = NewIter
    /\ UNCHANGED <<run, platform, hashtags_input, hashtags, hidx,
                   unique_usernames, posts_by_user, main_worksheet,
                   hashtag_worksheet, disc, hist>>

\* user_already_in_sheet(username): main() calls it and the file does not
\* define it; it answers whether the username is in the Username column of
\* the "Main" sheet.
user_already_in_sheet(u) ==
    \E i \in 1..Len(main_worksheet) : main_worksheet[i].username = u

\* Variant: the skip is logged and, for want of the continue, the loop body
\* goes on
SkipsKnown_NoContinue(u) == u # "" /\ user_already_in_sheet(u) /\ FALSE

\* if username and user_already_in_sheet(username): continue
SkipsKnown(u) == u # "" /\ user_already_in_sheet(u)

DedupCheck ==
    /\ pc = "dedup"
    /\ IF SkipsKnown(username)
       THEN /\ verdict' = "skipped"
            /\ pc' = "iterate"
       ELSE /\ verdict' = verdict
            /\ pc' = "profile"
    /\ iter' = [iter EXCEPT
                 !.dedupTrue = username # "" /\ user_already_in_sheet(username)]
    /\ UNCHANGED <<run, platform, hashtags_input, hashtags, hidx,
                   unique_usernames, posts_by_user, todo, username,
                   profile_data, sample, stats, main_worksheet,
                   hashtag_worksheet, disc, hist>>

\* What the profile actor can do for a username: raise, answer no item, or
\* answer an item [nick, followers_count, posts_count]; nick is
\* authorMeta.nickName on TikTok, NoName when the item has none.
\* The Instagram item carries no nickName: the code does not read one.
ProfileAnswers(p) ==
    {[kind |-> "raised"], [kind |-> "empty"]} \cup
    { [kind |-> "item", nick |-> n, counts |-> c] :
        n \in (IF p = "TikTok" THEN ProfileNicks ELSE {}) \cup {NoName},
        c \in ProfileCounts }

\* "username": username
scrape_profile_info_instagram(u, answer) ==
    IF answer.kind # "item" THEN NoProfile
    ELSE [username |-> u,
          followers_count |-> answer.counts.followers_count,
          posts_count |-> answer.counts.posts_count]

\* "username": author.get("nickName", username)
scrape_profile_info_tiktok(u, answer) ==
    IF answer.kind # "item" THEN NoProfile
    ELSE [username |-> IF answer.nick = NoName THEN u ELSE answer.nick,
          followers_count |-> answer.counts.followers_count,
          posts_count |-> answer.counts.posts_count]

\* profile_data = scrape_profile_info_*(username); if profile_data is None: continue
ScrapeProfile ==
    /\ pc = "profile"
    /\ \E answer \in ProfileAnswers(platform) :
         LET p == IF platform = "Instagram"
                  THEN scrape_profile_info_instagram(username, answer)
                  ELSE scrape_profile_info_tiktok(username, answer)
         IN  /\ profile_data' = p
             /\ IF p = NoProfile
                THEN verdict' = "no_profile" /\ pc' = "iterate"
                ELSE verdict' = verdict /\ pc' = "gate"
    /\ hist' = Called(hist)
    /\ iter' = [iter EXCEPT !.profile = TRUE]
    /\ UNCHANGED <<run, platform, hashtags_input, hashtags, hidx,
                   unique_usernames, posts_by_user, todo, username, sample,
                   stats, main_worksheet, hashtag_worksheet, disc>>

\* if followers_count > min_followers and posts_count > min_posts: ... (no else)
EligibilityGate ==
    /\ pc = "gate"
    /\ IF PassesGate(profile_data)
       THEN verdict' = verdict /\ pc' = "activity"
       ELSE verdict' = "gate_rejected" /\ pc' = "iterate"
    /\ UNCHANGED <<run, platform, hashtags_input, hashtags, hidx,
                   unique_usernames, posts_by_user, todo, username,
                   profile_data, sample, stats, main_worksheet,
                   hashtag_worksheet, disc, iter, hist>>

\* What the Instagram post actor can do: raise, or answer a post list
PostAnswers ==
    {[raised |-> TRUE, posts |-> <<>>]} \cup
    {[raised |-> FALSE, posts |-> l] : l \in PostLists}

\* median_likes, median_comments = get_last_5_posts_stats_instagram(username, ...)
FetchActivityInstagram ==
    /\ pc = "activity"
    /\ platform = "Instagram"
    /\ \E fetch \in PostAnswers :
         LET r == get_last_5_posts_stats_instagram(fetch)
         IN  /\ sample' = fetch.posts
             /\ stats' = [likes |-> r.likes, comments |-> r.comments]
    /\ pc' = "evaluate"
    /\ hist' = Called(hist)
    /\ iter' = [iter EXCEPT !.activity = TRUE]
    /\ UNCHANGED <<run, platform, hashtags_input, hashtags, hidx,
                   unique_usernames, posts_by_user, todo, username,
                   profile_data, verdict, main_worksheet, hashtag_worksheet,
                   disc>>

\* median_likes, median_comments = get_last_5_posts_stats_tiktok(username, posts_by_user)
\* An exception of the scoring is caught nowhere: it leaves main().
FetchActivityTikTok ==
    /\ pc = "activity"
    /\ platform = "TikTok"
    /\ LET r == get_last_5_posts_stats_tiktok(posts_by_user[username])
       IN  /\ sample' = posts_by_user[username]
           /\ IF r.raised
              THEN /\ stats' = stats
                   /\ pc' = "crashed"
                   /\ verdict' = "activity_raised"
                   /\ hist' = [hist EXCEPT !.crash = "activity"]
              ELSE /\ stats' = [likes |-> r.likes, comments |-> r.comments]
                   /\ pc' = "evaluate"
                   /\ verdict' = verdict
                   /\ hist' = hist
           /\ iter' = [iter EXCEPT !.activity = TRUE]
    /\ UNCHANGED <<run, platform, hashtags_input, hashtags, hidx,
                   unique_usernames, posts_by_user, todo, username,
                   profile_data, main_worksheet, hashtag_worksheet, disc>>

\* The engagement rate of the current username
CurrentRate ==
    engagement_rate(stats.likes, stats.comments, profile_data.followers_count)

\* if engagement_rate < min_engagement: continue
Evaluate ==
    /\ pc = "evaluate"
    /\ IF LowEngagement(CurrentRate)
       THEN verdict' = "low_engagement" /\ pc' = "iterate"
       ELSE verdict' = verdict /\ pc' = "append"
    /\ UNCHANGED <<run, platform, hashtags_input, hashtags, hidx,
                   unique_usernames, posts_by_user, todo, username,
                   profile_data, sample, stats, main_worksheet,
                   hashtag_worksheet, disc, iter, hist>>

\* The row of append_profile_to_sheet / append_profile_to_sheet_instagram:
\* the Username column and the platform of the Profile Link column (the
\* other columns are written and never read back).
ProfileRow(p, profile) == [username |-> profile.username, link |-> p]

\* append_profile_to_sheet*(...): main_worksheet.append_row(row) appends, or
\* raises; nothing in main() catches it.
AppendProfile ==
    /\ pc = "append"
    /\ \E written \in BOOLEAN :
         IF written
         THEN /\ main_worksheet' = Append(main_worksheet,
                                          ProfileRow(platform, profile_data))
              /\ verdict' = "persisted"
              /\ pc' = "iterate"
              /\ hist' = [hist EXCEPT !.appendedFor = @ \cup {username}]
              /\ iter' = [iter EXCEPT !.appended = TRUE]
         ELSE /\ main_worksheet' = main_worksheet
              /\ verdict' = "append_raised"
              /\ pc' = "crashed"
              /\ hist' = [hist EXCEPT !.storeFailed = TRUE,
                                      !.failedAfterWork = @ \/ hist.work,
                                      !.crash = "store"]
              /\ iter' = iter
    /\ UNCHANGED <<run, platform, hashtags_input, hashtags, hidx,
                   unique_usernames, posts_by_user, todo, username,
                   profile_data, sample, stats, hashtag_worksheet, disc>>

\* st.success("Scraping and data append complete. ...")
Complete ==
    /\ pc = "iterate"
    /\ todo = {}
    /\ pc' = "completed"
    /\ UNCHANGED <<run, platform, hashtags_input, hashtags, hidx,
                   unique_usernames, posts_by_user, todo, username,
                   profile_data, sample, stats, verdict, main_worksheet,
                   hashtag_worksheet, disc, iter, hist>>

Next ==
    \/ Rerun
    \/ Click
    \/ append_hashtags_to_sheet
    \/ fetch_owner_usernames_step
    \/ fetch_owner_usernames_return
    \/ NextUsername
    \/ DedupCheck
    \/ ScrapeProfile
    \/ EligibilityGate
    \/ FetchActivityInstagram
    \/ FetchActivityTikTok
    \/ Evaluate
    \/ AppendProfile
    \/ Complete

Spec == Init /\ [][Next]_vars

----------------------------------------------------------------------------
(* The activity scoring on its own: a post list is drawn, scored, and       *)
(* reordered; `stats` keeps the score of an earlier order of `sample`.      *)

\* Posts the scoring is tried on
ScorePosts ==
    { Post(1, 0, 1), Post(1, 3, 0), Post(2, 0, 1), Post(2, 3, 0) }

InitScore ==
    /\ pc = "scoring"
    /\ run = 0
    /\ platform = None
    /\ hashtags_input = <<>>
    /\ hashtags = <<>>
    /\ hidx = 0
    /\ unique_usernames = {}
    /\ posts_by_user = [u \in Users |-> <<>>]
    /\ todo = {}
    /\ username = None
    /\ profile_data = NoProfile
    /\ sample \in SeqsUpTo(ScorePosts, MaxPosts)
    /\ stats = NoStats
    /\ verdict = "none"
    /\ main_worksheet = <<>>
    /\ hashtag_worksheet = <<>>
    /\ disc = NewDisc
    /\ iter = NewIter
    /\ hist = NewHist({})

\* The scoring of get_last_5_posts_stats_* applied to the list as it stands
ScoreApply ==
    /\ pc = "scoring"
    /\ stats = NoStats
    /\ stats' = Last5Stats(sample)
    /\ UNCHANGED <<pc, run, platform, hashtags_input, hashtags, hidx,
                   unique_usernames, posts_by_user, todo, username,
                   profile_data, sample, verdict, main_worksheet,
                   hashtag_worksheet, disc, iter, hist>>

\* The upstream answers the same posts in another order: two neighbours swap
ScorePermute ==
    /\ pc = "scoring"
    /\ \E i \in 1..(Len(sample) - 1) :
         sample' = [sample EXCEPT ![i] = sample[i + 1], ![i + 1] = sample[i]]
    /\ UNCHANGED <<pc, run, platform, hashtags_input, hashtags, hidx,
                   unique_usernames, posts_by_user, todo, username,
                   profile_data, stats, verdict, main_worksheet,
                   hashtag_worksheet, disc, iter, hist>>

NextScore ==
    \/ ScoreApply
    \/ ScorePermute

SpecScore == InitScore /\ [][NextScore]_vars

----------------------------------------------------------------------------
(* Properties *)

\* The k-th smallest of a non-empty list of numbers, by counting
KthSmallest(values, k) ==
    CHOOSE x \in Range(values) :
        /\ Cardinality({i \in DOMAIN values : values[i] < x}) < k
        /\ Cardinality({i \in DOMAIN values : values[i] <= x}) >= k

\* Twice the median: the two middle values added (the middle value twice
\* when the count is odd)
TwiceMedian(values) ==
    LET n == Len(values)
    IN  KthSmallest(values, (n + 1) \div 2) + KthSmallest(values, n \div 2 + 1)

\* The likes and comments the medians are taken of: those of the up-to-5
\* most recent posts of `sample`; none when the fetch failed or a count of
\* them is no number (Instagram answers (0, 0) then)
Scored(posts) ==
    IF posts = <<>> \/ HasBadCount(RecentPosts(posts)) THEN <<>>
    ELSE RecentPosts(posts)

TwiceMedianLikes == IF Scored(sample) = <<>> THEN 0
                    ELSE TwiceMedian(LikesList(Scored(sample)))
TwiceMedianComments == IF Scored(sample) = <<>> THEN 0
                       ELSE TwiceMedian(CommentsList(Scored(sample)))

\* The loop reached a decision on the engagement threshold for `username`
Evaluated == verdict \in {"low_engagement", "persisted", "append_raised"}

\* C1: a username the dedup check answers true for is skipped: in its
\* iteration (the only one it has in the run) no profile is fetched, no
\* activity is fetched and no Main row is appended.
C1_DedupSkipsEnrichment ==
    iter.dedupTrue =>
        /\ ~iter.profile
        /\ ~iter.activity
        /\ ~iter.appended
        /\ pc \in {"iterate", "completed"}
        /\ verdict = "skipped"

C1_Witness ==
    /\ pc = "iterate"
    /\ iter.dedupTrue
    /\ verdict = "skipped"
    /\ todo # {}

\* C2: no failure of a per-identity step (dedup check, profile fetch,
\* activity fetch) ends the run; only a store failure may.
C2_NoPerIdentityAbort == pc = "crashed" => hist.crash = "store"

\* C3: whenever a QualifyingRecord of the current run is in the Main sheet,
\* the AuditRecord of that run (its timestamp is the run's) is in the
\* Hashtags sheet.
C3_AuditBeforeQualifying ==
    hist.appendedFor # {} =>
        \E i \in 1..Len(hashtag_worksheet) : hashtag_worksheet[i].timestamp = run

\* C4: a fetched profile with followers_count <= 1000 or posts_count <= 20
\* gets no activity fetch and no Main row.
C4_GateShortCircuits ==
    (/\ profile_data # NoProfile
     /\ \/ profile_data.followers_count <= min_followers
        \/ profile_data.posts_count <= min_posts)
    => ~iter.activity /\ ~iter.appended

C4_Witness ==
    /\ verdict = "gate_rejected"
    /\ profile_data.followers_count = min_followers
    /\ profile_data.posts_count > min_posts
    /\ pc = "iterate"

DiscoverDone == pc = "discover" /\ hidx > Len(hashtags)

\* C6 as stated: the returned set is exactly the union of the usernames of
\* the hashtags whose query succeeded.
C6_OnlySucceededHashtags == DiscoverDone => unique_usernames = disc.okIds

\* C6 amended: every hashtag is queried once, in order, whichever queries
\* fail, and the returned set is the usernames of the hashtags that succeeded
\* together with the usernames read from a failed hashtag before it failed.
C6_FailuresIsolated ==
    /\ pc = "discover" =>
         unique_usernames = disc.okIds \cup disc.partialIds
    /\ DiscoverDone =>
         disc.queried = [i \in 1..Len(hashtags) |-> i]

C6_Witness ==
    /\ DiscoverDone
    /\ Len(hashtags) = 2
    /\ disc.partialIds # {}
    /\ ~(disc.partialIds \subseteq disc.okIds)

\* No post left out of the 5 most recent has the timestamp of a post kept
NoTieAcrossCut(posts) ==
    \/ Len(posts) <= RecentCount
    \/ SortByRecency(posts)[RecentCount].ts # SortByRecency(posts)[RecentCount + 1].ts

\* C7 as stated: the score of a post list is the score of every reordering.
C7_OrderInvariant ==
    (pc = "scoring" /\ stats # NoStats) => Last5Stats(sample) = stats

\* C7 amended: the score of a post list is the score of every reordering,
\* provided no timestamp tie straddles the cut after the 5 most recent.
C7_OrderInvariantNoTieAcrossCut ==
    (pc = "scoring" /\ stats # NoStats /\ NoTieAcrossCut(sample))
        => Last5Stats(sample) = stats

C7_Witness ==
    /\ pc = "scoring"
    /\ Len(sample) > RecentCount
    /\ NoTieAcrossCut(sample)
    /\ stats # NoStats
    /\ stats.likes > 0
    /\ sample[1].ts < sample[Len(sample)].ts
    /\ \E i \in 1..(Len(sample) - 1) : sample[i].ts = sample[i + 1].ts
                                       /\ sample[i].likes # sample[i + 1].likes

\* C8: a username for which an earlier run on the same platform appended a
\* row gets no row in the current run.
C8_RerunAppendsNothing ==
    \A u \in hist.appendedFor : <<platform, u>> \notin hist.prior

\* C9: a store failure never surfaces after an upstream call was made, and
\* no upstream call is made after a store write failed.
C9_StoreFailureBeforeWork ==
    ~hist.failedAfterWork /\ ~hist.workAfterFailure

\* C10: with no post to score the medians and the rate are 0, the username
\* is rejected and gets no row; the rate's denominator is never 0, and the
\* rate is 0 for followers_count = 0.
C10_EmptySampleRejected ==
    /\ (iter.activity /\ sample = <<>> /\ verdict # "activity_raised") =>
         /\ stats = [likes |-> 0, comments |-> 0]
         /\ CurrentRate.num = 0
         /\ pc # "append"
         /\ ~iter.appended
         /\ pc # "evaluate" => verdict = "low_engagement"
    /\ (pc \in {"evaluate", "append"} \/ Evaluated) => CurrentRate.den # 0
    /\ \A l \in 0..3, c \in 0..3 :
         /\ engagement_rate(l, c, 0).num = 0
         /\ engagement_rate(l, c, 0).den # 0

C10_Witness ==
    /\ iter.activity
    /\ sample = <<>>
    /\ verdict = "low_engagement"
    /\ pc = "iterate"
    /\ profile_data.followers_count > min_followers

====
